---- MODULE Spec2Model ----
(***************************************************************************)
(* The War on Art: the bidding strategy (src/dist/strategy.js) and the MCP *)
(* tool handlers that drive it (src/src/index.ts) over the Catawiki agent  *)
(* (src/dist/catawiki.js).                                                 *)
(*                                                                         *)
(* JavaScript numbers are modelled as exact rationals extended with NaN,   *)
(* +Infinity and -Infinity: a number is a record [n, d] in lowest terms    *)
(* with d >= 0, where d = 0 encodes Infinity (n = 1), -Infinity (n = -1)   *)
(* and NaN (n = 0).  A missing (undefined) numeric field behaves as NaN in *)
(* every arithmetic expression of the code and is modelled as NaN.  Bid    *)
(* timestamps are never read by the code and are left out of the records.  *)
(***************************************************************************)
EXTENDS Integers, Sequences, FiniteSets, TLC

(***************************************************************************)
(* Numbers                                                                 *)
(***************************************************************************)
Abs(i) == IF i < 0 THEN -i ELSE i

Sign(i) == IF i < 0 THEN -1 ELSE IF i > 0 THEN 1 ELSE 0

RECURSIVE GCD(_, _)
GCD(a, b) == IF b = 0 THEN a ELSE GCD(b, a % b)

\* the number n/d (d >= 0) in lowest terms; d = 0 gives Infinity, -Infinity or NaN
Num(n, d) ==
    IF d = 0 THEN [n |-> Sign(n), d |-> 0]
    ELSE LET g == GCD(Abs(n), d) IN [n |-> n \div g, d |-> d \div g]

Int2Num(i) == [n |-> i, d |-> 1]

NaN == [n |-> 0, d |-> 0]

Infinity == [n |-> 1, d |-> 0]

IsNaN(x) == x.d = 0 /\ x.n = 0

IsFinite(x) == x.d > 0

Neg(x) == [n |-> 0 - x.n, d |-> x.d]

\* x + y
Add(x, y) ==
    IF IsNaN(x) \/ IsNaN(y) THEN NaN
    ELSE IF x.d = 0 /\ y.d = 0 THEN (IF x.n = y.n THEN x ELSE NaN)
    ELSE IF x.d = 0 THEN x
    ELSE IF y.d = 0 THEN y
    ELSE LET g == GCD(x.d, y.d)
         IN  Num(x.n * (y.d \div g) + y.n * (x.d \div g), (x.d \div g) * y.d)

\* x - y
Sub(x, y) == Add(x, Neg(y))

\* x * y
Mul(x, y) ==
    IF x.d = 0 \/ y.d = 0 THEN Num(Sign(x.n) * Sign(y.n), 0)
    ELSE LET g1 == GCD(Abs(x.n), y.d)
             g2 == GCD(Abs(y.n), x.d)
         IN  Num((x.n \div g1) * (y.n \div g2), (x.d \div g2) * (y.d \div g1))

\* x / y
Div(x, y) ==
    Mul(x, IF y.n < 0 THEN [n |-> 0 - y.d, d |-> 0 - y.n] ELSE [n |-> y.d, d |-> y.n])

\* x < y
Lt(x, y) ==
    IF IsNaN(x) \/ IsNaN(y) THEN FALSE
    ELSE IF x.d = 0 \/ y.d = 0 THEN x.n * y.d < y.n * x.d \/ (x.d = y.d /\ x.n < y.n)
    ELSE LET g == GCD(x.d, y.d)
         IN  x.n * (y.d \div g) < y.n * (x.d \div g)

\* x <= y
Le(x, y) ==
    IF IsNaN(x) \/ IsNaN(y) THEN FALSE
    ELSE IF x.d = 0 \/ y.d = 0 THEN x.n * y.d < y.n * x.d \/ (x.d = y.d /\ x.n <= y.n)
    ELSE LET g == GCD(x.d, y.d)
         IN  x.n * (y.d \div g) <= y.n * (x.d \div g)

\* x > y
Gt(x, y) == Lt(y, x)

\* x >= y
Ge(x, y) == Le(y, x)

\* Math.min(x, y)
MathMin(x, y) ==
    IF IsNaN(x) \/ IsNaN(y) THEN NaN ELSE IF Lt(y, x) THEN y ELSE x

\* Math.max(x, y)
MathMax(x, y) ==
    IF IsNaN(x) \/ IsNaN(y) THEN NaN ELSE IF Lt(x, y) THEN y ELSE x

\* the truth value of a number in a condition: 0 and NaN are falsy
Truthy(x) == ~IsNaN(x) /\ x.n # 0

\* a decimal literal of the code, in hundredths: Dec(85) is 0.85
Dec(h) == Num(h, 100)

\* Number.prototype.toFixed(2)
toFixed2(x) ==
    IF IsNaN(x) THEN "NaN"
    ELSE IF x.d = 0 THEN (IF x.n > 0 THEN "Infinity" ELSE "-Infinity")
    ELSE LET h  == (2 * Abs(x.n) * 100 + x.d) \div (2 * x.d)
             fr == h % 100
         IN  (IF x.n < 0 THEN "-" ELSE "") \o ToString(h \div 100) \o "."
             \o (IF fr < 10 THEN "0" ELSE "") \o ToString(fr)

(***************************************************************************)
(* WarOnArtStrategy (src/dist/strategy.js)                                 *)
(***************************************************************************)
\* the last five elements of an array: slice(-5)
RecentWindow == 5

Last5(s) ==
    IF Len(s) <= RecentWindow THEN s ELSE SubSeq(s, Len(s) - RecentWindow + 1, Len(s))

\* lastBid?.bidder === 'self'
WeAreWinning(state) ==
    Len(state.bidHistory) > 0 /\ state.bidHistory[Len(state.bidHistory)].bidder = "self"

RECURSIVE SumNums(_)
SumNums(s) == IF Len(s) = 0 THEN Int2Num(0) ELSE Add(SumNums(SubSeq(s, 1, Len(s) - 1)), s[Len(s)])

calculatePriceAcceleration(bids) ==
    IF Len(bids) < 2 THEN Int2Num(0)
    ELSE LET increments == [i \in 1..(Len(bids) - 1) |-> Sub(bids[i + 1].amount, bids[i].amount)]
             avgIncrement == Div(SumNums(increments), Int2Num(Len(increments)))
             recentIncrement == increments[Len(increments)]
         IN  MathMin(Int2Num(1), Div(recentIncrement, MathMax(Int2Num(1), avgIncrement)))

calculateBidPressure(state) ==
    LET recentBids == Last5(state.bidHistory)
        opponentBids == SelectSeq(recentBids, LAMBDA b : b.bidder # "self")
    IN  IF Len(opponentBids) = 0 THEN Int2Num(0)
        ELSE LET bidFrequency == Div(Int2Num(Len(opponentBids)),
                                     MathMax(Int2Num(1), Div(state.timeRemaining, Int2Num(60))))
                 priceAcceleration == calculatePriceAcceleration(recentBids)
             IN  MathMin(Int2Num(1), Add(Mul(bidFrequency, Dec(50)), Mul(priceAcceleration, Dec(50))))

calculateSenteValue(state) ==
    LET competitionFactor == MathMin(Int2Num(1), Div(state.competitorCount, Int2Num(5)))
        valueFactor == Sub(Int2Num(1), Div(state.currentPrice, state.estimatedValue))
        timeFactor == Sub(Int2Num(1), Div(state.timeRemaining, Int2Num(300)))
    IN  Add(Add(Mul(competitionFactor, Dec(40)), Mul(valueFactor, Dec(30))), Mul(timeFactor, Dec(30)))

calculateStrategicIncrement(state, senteValue, config) ==
    LET baseIncrement == Mul(state.currentPrice, Dec(5))
        senteMultiplier == Add(Int2Num(1), Mul(senteValue, config.aggressiveness))
    IN  Mul(baseIncrement, senteMultiplier)

\* earlyGameStrategy with the computed amount left in the decision of the last hold branch
earlyGameStrategy_AmountOnHold(state, valueRatio, weAreWinning) ==
    IF weAreWinning
    THEN [shouldBid |-> FALSE,
          reasoning |-> "Early game - holding Sente, no need to bid",
          confidence |-> Dec(90), strategy |-> "sente"]
    ELSE IF Lt(valueRatio, Dec(60))
    THEN [shouldBid |-> TRUE,
          amount |-> Add(state.currentPrice, Mul(state.currentPrice, Dec(5))),
          reasoning |-> "Early game - establishing territory at good value",
          confidence |-> Dec(70), strategy |-> "sente"]
    ELSE [shouldBid |-> FALSE,
          amount |-> Add(state.currentPrice, Mul(state.currentPrice, Dec(5))),
          reasoning |-> "Early game - price not attractive enough",
          confidence |-> Dec(80), strategy |-> "hold"]

\* earlyGameStrategy with a 10% step instead of the 5% one
earlyGameStrategy_TenPercent(state, valueRatio, weAreWinning) ==
    IF weAreWinning
    THEN [shouldBid |-> FALSE,
          reasoning |-> "Early game - holding Sente, no need to bid",
          confidence |-> Dec(90), strategy |-> "sente"]
    ELSE IF Lt(valueRatio, Dec(60))
    THEN LET minIncrement == Mul(state.currentPrice, Dec(10))
         IN  [shouldBid |-> TRUE,
              amount |-> Add(state.currentPrice, minIncrement),
              reasoning |-> "Early game - establishing territory at good value",
              confidence |-> Dec(70), strategy |-> "sente"]
    ELSE [shouldBid |-> FALSE,
          reasoning |-> "Early game - price not attractive enough",
          confidence |-> Dec(80), strategy |-> "hold"]

earlyGameStrategy(state, valueRatio, weAreWinning) ==
    IF weAreWinning
    THEN [shouldBid |-> FALSE,
          reasoning |-> "Early game - holding Sente, no need to bid",
          confidence |-> Dec(90), strategy |-> "sente"]
    ELSE IF Lt(valueRatio, Dec(60))
    THEN LET minIncrement == Mul(state.currentPrice, Dec(5))
         IN  [shouldBid |-> TRUE,
              amount |-> Add(state.currentPrice, minIncrement),
              reasoning |-> "Early game - establishing territory at good value",
              confidence |-> Dec(70), strategy |-> "sente"]
    ELSE [shouldBid |-> FALSE,
          reasoning |-> "Early game - price not attractive enough",
          confidence |-> Dec(80), strategy |-> "hold"]

\* midGameStrategy without the test of the candidate against maxBid
midGameStrategy_NoMaxBidCheck(state, valueRatio, senteValue, weAreWinning, config) ==
    LET shouldFightForSente == Gt(senteValue, Dec(60)) /\ Gt(config.aggressiveness, Dec(50))
        increment == calculateStrategicIncrement(state, senteValue, config)
        bidAmount == Add(state.currentPrice, increment)
    IN  IF weAreWinning /\ ~shouldFightForSente
        THEN [shouldBid |-> FALSE,
              reasoning |-> "Mid game - maintaining Sente",
              confidence |-> Dec(85), strategy |-> "sente"]
        ELSE IF Lt(valueRatio, Dec(85))
        THEN [shouldBid |-> TRUE,
              amount |-> bidAmount,
              reasoning |-> "Mid game - taking Sente (value: " \o toFixed2(senteValue) \o ")",
              confidence |-> Dec(75), strategy |-> "sente"]
        ELSE [shouldBid |-> FALSE,
              reasoning |-> "Mid game - price too high or max bid reached",
              confidence |-> Dec(70), strategy |-> "gote"]

midGameStrategy(state, valueRatio, senteValue, weAreWinning, config) ==
    LET shouldFightForSente == Gt(senteValue, Dec(60)) /\ Gt(config.aggressiveness, Dec(50))
        increment == calculateStrategicIncrement(state, senteValue, config)
        bidAmount == Add(state.currentPrice, increment)
    IN  IF weAreWinning /\ ~shouldFightForSente
        THEN [shouldBid |-> FALSE,
              reasoning |-> "Mid game - maintaining Sente",
              confidence |-> Dec(85), strategy |-> "sente"]
        ELSE IF Lt(valueRatio, Dec(85)) /\ Le(bidAmount, config.maxBid)
        THEN [shouldBid |-> TRUE,
              amount |-> bidAmount,
              reasoning |-> "Mid game - taking Sente (value: " \o toFixed2(senteValue) \o ")",
              confidence |-> Dec(75), strategy |-> "sente"]
        ELSE [shouldBid |-> FALSE,
              reasoning |-> "Mid game - price too high or max bid reached",
              confidence |-> Dec(70), strategy |-> "gote"]

\* endGameStrategy with the reasoning of the last branch forgotten
endGameStrategy_EmptyReason(state, valueRatio, bidPressure, weAreWinning, config) ==
    LET finalBid == MathMin(config.maxBid, Add(state.currentPrice, Mul(state.currentPrice, Dec(10))))
    IN  IF weAreWinning /\ Lt(bidPressure, Dec(70))
        THEN [shouldBid |-> FALSE,
              reasoning |-> "End game - holding winning position",
              confidence |-> Dec(95), strategy |-> "sente"]
        ELSE IF Lt(valueRatio, Int2Num(1)) /\ Gt(finalBid, state.currentPrice)
        THEN [shouldBid |-> TRUE,
              amount |-> finalBid,
              reasoning |-> "End game - final push for victory",
              confidence |-> Dec(80), strategy |-> "final"]
        ELSE [shouldBid |-> FALSE,
              reasoning |-> "",
              confidence |-> Dec(90), strategy |-> "gote"]

\* endGameStrategy that holds whenever the operator leads, whatever the pressure
endGameStrategy_HoldsWhenLeading(state, valueRatio, bidPressure, weAreWinning, config) ==
    LET finalBid == MathMin(config.maxBid, Add(state.currentPrice, Mul(state.currentPrice, Dec(10))))
    IN  IF weAreWinning
        THEN [shouldBid |-> FALSE,
              reasoning |-> "End game - holding winning position",
              confidence |-> Dec(95), strategy |-> "sente"]
        ELSE IF Lt(valueRatio, Int2Num(1)) /\ Gt(finalBid, state.currentPrice)
        THEN [shouldBid |-> TRUE,
              amount |-> finalBid,
              reasoning |-> "End game - final push for victory",
              confidence |-> Dec(80), strategy |-> "final"]
        ELSE [shouldBid |-> FALSE,
              reasoning |-> "End game - price exceeded value threshold",
              confidence |-> Dec(90), strategy |-> "gote"]

endGameStrategy(state, valueRatio, bidPressure, weAreWinning, config) ==
    LET finalBid == MathMin(config.maxBid, Add(state.currentPrice, Mul(state.currentPrice, Dec(10))))
    IN  IF weAreWinning /\ Lt(bidPressure, Dec(70))
        THEN [shouldBid |-> FALSE,
              reasoning |-> "End game - holding winning position",
              confidence |-> Dec(95), strategy |-> "sente"]
        ELSE IF Lt(valueRatio, Int2Num(1)) /\ Gt(finalBid, state.currentPrice)
        THEN [shouldBid |-> TRUE,
              amount |-> finalBid,
              reasoning |-> "End game - final push for victory",
              confidence |-> Dec(80), strategy |-> "final"]
        ELSE [shouldBid |-> FALSE,
              reasoning |-> "End game - price exceeded value threshold",
              confidence |-> Dec(90), strategy |-> "gote"]

\* executeSnipeStrategy without the valueRatio < 1.0 test
executeSnipeStrategy_NoValueCheck(state, valueRatio, config) ==
    IF ~WeAreWinning(state)
    THEN [shouldBid |-> TRUE,
          amount |-> MathMin(config.maxBid, state.estimatedValue),
          reasoning |-> "Snipe strategy - taking initiative in final seconds",
          confidence |-> Dec(85), strategy |-> "final"]
    ELSE [shouldBid |-> FALSE,
          reasoning |-> "Snipe window - holding winning position",
          confidence |-> Dec(95), strategy |-> "sente"]

\* executeSnipeStrategy that bids maxBid whatever the estimated value
executeSnipeStrategy_BidsMaxBid(state, valueRatio, config) ==
    IF Lt(valueRatio, Int2Num(1)) /\ ~WeAreWinning(state)
    THEN [shouldBid |-> TRUE,
          amount |-> config.maxBid,
          reasoning |-> "Snipe strategy - taking initiative in final seconds",
          confidence |-> Dec(85), strategy |-> "final"]
    ELSE [shouldBid |-> FALSE,
          reasoning |-> "Snipe window - holding winning position",
          confidence |-> Dec(95), strategy |-> "sente"]

executeSnipeStrategy(state, valueRatio, config) ==
    IF Lt(valueRatio, Int2Num(1)) /\ ~WeAreWinning(state)
    THEN LET snipeBid == MathMin(config.maxBid, state.estimatedValue)
         IN  [shouldBid |-> TRUE,
              amount |-> snipeBid,
              reasoning |-> "Snipe strategy - taking initiative in final seconds",
              confidence |-> Dec(85), strategy |-> "final"]
    ELSE [shouldBid |-> FALSE,
          reasoning |-> "Snipe window - holding winning position",
          confidence |-> Dec(95), strategy |-> "sente"]

\* the snipe override with a strict comparison
SnipeActive_Strict(state, config) ==
    config.sniping /\ Lt(state.timeRemaining, config.snipeWindow)

\* the snipe override of decideBid
SnipeActive(state, config) ==
    config.sniping /\ Le(state.timeRemaining, config.snipeWindow)

\* decideBid with the early game reaching down to five minutes exactly (timeRatio >= 5)
decideBidWith_EarlyAtFiveMinutes(state, config, valueRatio, senteValue) ==
    LET weAreWinning == WeAreWinning(state)
        timeRatio == Div(state.timeRemaining, Int2Num(60))
        bidPressure == calculateBidPressure(state)
    IN  IF SnipeActive(state, config)
        THEN executeSnipeStrategy(state, valueRatio, config)
        ELSE IF Ge(timeRatio, Int2Num(5))
        THEN earlyGameStrategy(state, valueRatio, weAreWinning)
        ELSE IF Gt(timeRatio, Int2Num(1))
        THEN midGameStrategy(state, valueRatio, senteValue, weAreWinning, config)
        ELSE endGameStrategy(state, valueRatio, bidPressure, weAreWinning, config)

\* decideBid with the mid game starting above two minutes (timeRatio > 2)
decideBidWith_EndAtTwoMinutes(state, config, valueRatio, senteValue) ==
    LET weAreWinning == WeAreWinning(state)
        timeRatio == Div(state.timeRemaining, Int2Num(60))
        bidPressure == calculateBidPressure(state)
    IN  IF SnipeActive(state, config)
        THEN executeSnipeStrategy(state, valueRatio, config)
        ELSE IF Gt(timeRatio, Int2Num(5))
        THEN earlyGameStrategy(state, valueRatio, weAreWinning)
        ELSE IF Gt(timeRatio, Int2Num(2))
        THEN midGameStrategy(state, valueRatio, senteValue, weAreWinning, config)
        ELSE endGameStrategy(state, valueRatio, bidPressure, weAreWinning, config)

\* decideBid with the mid game starting at one minute exactly (timeRatio >= 1)
decideBidWith_MidAtOneMinute(state, config, valueRatio, senteValue) ==
    LET weAreWinning == WeAreWinning(state)
        timeRatio == Div(state.timeRemaining, Int2Num(60))
        bidPressure == calculateBidPressure(state)
    IN  IF SnipeActive(state, config)
        THEN executeSnipeStrategy(state, valueRatio, config)
        ELSE IF Gt(timeRatio, Int2Num(5))
        THEN earlyGameStrategy(state, valueRatio, weAreWinning)
        ELSE IF Ge(timeRatio, Int2Num(1))
        THEN midGameStrategy(state, valueRatio, senteValue, weAreWinning, config)
        ELSE endGameStrategy(state, valueRatio, bidPressure, weAreWinning, config)

\* the body of decideBid once the two value signals are computed
decideBidWith(state, config, valueRatio, senteValue) ==
    LET weAreWinning == WeAreWinning(state)
        timeRatio == Div(state.timeRemaining, Int2Num(60))
        bidPressure == calculateBidPressure(state)
    IN  IF SnipeActive(state, config)
        THEN executeSnipeStrategy(state, valueRatio, config)
        ELSE IF Gt(timeRatio, Int2Num(5))
        THEN earlyGameStrategy(state, valueRatio, weAreWinning)
        ELSE IF Gt(timeRatio, Int2Num(1))
        THEN midGameStrategy(state, valueRatio, senteValue, weAreWinning, config)
        ELSE endGameStrategy(state, valueRatio, bidPressure, weAreWinning, config)

decideBid(state, config) ==
    decideBidWith(state, config,
                  Div(state.currentPrice, state.estimatedValue),
                  calculateSenteValue(state))

\* updateStrategy lowering aggressiveness without the floor of 0.3
updateStrategy_NoFloor(config, feedback) ==
    IF feedback.won /\ Gt(feedback.efficiency, Dec(90))
    THEN [config EXCEPT !.aggressiveness = Sub(config.aggressiveness, Dec(5))]
    ELSE IF ~feedback.won /\ Lt(feedback.finalPrice, config.maxBid)
    THEN [config EXCEPT !.aggressiveness = MathMin(Int2Num(1), Add(config.aggressiveness, Dec(10)))]
    ELSE config

\* updateStrategy raising aggressiveness without the cap of 1.0
updateStrategy_NoCap(config, feedback) ==
    IF feedback.won /\ Gt(feedback.efficiency, Dec(90))
    THEN [config EXCEPT !.aggressiveness = MathMax(Dec(30), Sub(config.aggressiveness, Dec(5)))]
    ELSE IF ~feedback.won /\ Lt(feedback.finalPrice, config.maxBid)
    THEN [config EXCEPT !.aggressiveness = Add(config.aggressiveness, Dec(10))]
    ELSE config

\* an updateStrategy whose efficient-win step has the wrong sign
updateStrategy_WinRaises(config, feedback) ==
    IF feedback.won /\ Gt(feedback.efficiency, Dec(90))
    THEN [config EXCEPT !.aggressiveness = MathMax(Dec(30), Add(config.aggressiveness, Dec(5)))]
    ELSE IF ~feedback.won /\ Lt(feedback.finalPrice, config.maxBid)
    THEN [config EXCEPT !.aggressiveness = MathMin(Int2Num(1), Add(config.aggressiveness, Dec(10)))]
    ELSE config

\* updateStrategy(feedback): the config after the call
updateStrategy(config, feedback) ==
    IF feedback.won /\ Gt(feedback.efficiency, Dec(90))
    THEN [config EXCEPT !.aggressiveness = MathMax(Dec(30), Sub(config.aggressiveness, Dec(5)))]
    ELSE IF ~feedback.won /\ Lt(feedback.finalPrice, config.maxBid)
    THEN [config EXCEPT !.aggressiveness = MathMin(Int2Num(1), Add(config.aggressiveness, Dec(10)))]
    ELSE config

(***************************************************************************)
(* Bounds and input sets                                                   *)
(***************************************************************************)
\* longest bid history given to the strategy
MaxHist == 2

\* number of decideBid calls made on one snapshot
MaxEval == 2

\* CatawikiAgent objects constructed in one run of the server
MaxAgents == 2

\* tool calls in flight at the same time
MaxCalls == 2

\* tool invocations in one run of the server
MaxOps == 3

\* ticks of one auto_bid run
MaxTicks == 2

\* bid rows the auction page lists
MaxRows == 1

AuctionIds == {"lot-1"}

Nums(S) == {Int2Num(i) : i \in S}

Prices == Nums({0, 50, 70, 90, 100, 120})

\* estimatedValue: missing (NaN), negative, zero, positive
Values == {NaN} \cup Nums({0 - 100, 0, 100})

MaxBids == Nums({40, 95, 1000})

Times == Nums({0, 10, 60, 61, 300, 301})

SnipeWindows == Nums({10, 400})

Counts == Nums({0, 5})

Aggressions == {Dec(30), Dec(70)}

Bids == {[amount |-> Int2Num(100), bidder |-> "self"],
         [amount |-> Int2Num(50), bidder |-> "opponent_0"],
         [amount |-> Int2Num(100), bidder |-> "opponent_1"]}

Histories == UNION {[1..k -> Bids] : k \in 0..MaxHist}

Configs == [maxBid : MaxBids, targetValue : Values, aggressiveness : Aggressions,
            sniping : BOOLEAN, snipeWindow : SnipeWindows]

(***************************************************************************)
(* CatawikiAgent (src/dist/catawiki.js)                                    *)
(*                                                                         *)
(* A page is a record [price, timer, rows]: the price and the countdown it *)
(* shows and the amounts of the bid rows it lists, top row first.  One     *)
(* getAuctionState call is one read of the page.                           *)
(***************************************************************************)
\* extractTimeRemaining's fallback when no positive countdown is found
DefaultTimeRemaining == 3600

RECURSIVE Reverse(_)
Reverse(s) == IF Len(s) = 0 THEN <<>> ELSE Append(Reverse(Tail(s)), Head(s))

extractCurrentPrice(page) == page.price

extractTimeRemaining(page) ==
    IF Gt(page.timer, Int2Num(0)) THEN page.timer ELSE Int2Num(DefaultTimeRemaining)

extractBidHistory(page) ==
    LET rowBids == [i \in 1..Len(page.rows) |->
                       [amount |-> page.rows[i], bidder |-> "opponent_" \o ToString(i - 1)]]
        bids == SelectSeq(rowBids, LAMBDA b : Gt(b.amount, Int2Num(0)))
    IN  Reverse(bids)

getAuctionState(page, auctionId, estimatedValue) ==
    LET bidHistory == extractBidHistory(page)
        uniqueBidders == Cardinality({bidHistory[i].bidder : i \in DOMAIN bidHistory})
    IN  [auctionId |-> auctionId,
         currentPrice |-> extractCurrentPrice(page),
         yourMaxBid |-> Int2Num(0),
         timeRemaining |-> extractTimeRemaining(page),
         bidHistory |-> bidHistory,
         estimatedValue |-> estimatedValue,
         competitorCount |-> Int2Num(uniqueBidders)]

\* what the extractors see once the page is being torn down: every selector
\* lookup throws inside its try block
BlankPage == [price |-> Int2Num(0), timer |-> Int2Num(0), rows |-> <<>>]

(***************************************************************************)
(* State                                                                   *)
(***************************************************************************)
VARIABLES
    state,          \* the AuctionState handed to decideBid (direct calls)
    config,         \* the strategy's config (this.config) (direct calls)
    returned,       \* the decisions decideBid has returned on this snapshot since the
                    \* config was last assigned, oldest first
    lastFeedback,   \* the feedback most recently given to updateStrategy (direct calls)
    activeAuctions, \* the registry: auctionId -> session object, 0 when the key is absent
    agents,         \* per CatawikiAgent object: "unborn", "new", "open", "closing", "closed"
    sessions,       \* per session object: its config and its last stored AuctionState
    lot,            \* the auction site: the lot's price and the bid rows its page lists
    calls,          \* the tool calls in flight
    response,       \* the response most recently returned by a handler, and its call
    placed,         \* the amount most recently handed to agent.placeBid, and the agent
    now,            \* Date.now(), in seconds since the server started
    budget          \* tool invocations still to come

engineVars == <<state, config, returned, lastFeedback>>

serverVars == <<activeAuctions, agents, sessions, lot, calls, response, placed, now, budget>>

vars == <<state, config, returned, lastFeedback, activeAuctions, agents, sessions, lot, calls, response,
          placed, now, budget>>

ObjIds == 1..MaxAgents

CallIds == 1..MaxCalls

NoSession == [none |-> TRUE]

NoFeedback == [none |-> TRUE]

NoResponse == [op |-> "none"]

NothingPlaced == [obj |-> 0]

IdleCall == [op |-> "none", pc |-> "idle", auctionId |-> "", obj |-> 0, loc |-> <<>>]

InitServer ==
    /\ activeAuctions = [id \in AuctionIds |-> 0]
    /\ agents = [o \in ObjIds |-> "unborn"]
    /\ sessions = [o \in ObjIds |-> NoSession]
    /\ lot = [price |-> Int2Num(50), rows |-> <<>>]
    /\ calls = [c \in CallIds |-> IdleCall]
    /\ response = NoResponse
    /\ placed = NothingPlaced
    /\ now = 0
    /\ budget = MaxOps

(***************************************************************************)
(* The strategy called directly, as src/dist/test-strategy.js does         *)
(***************************************************************************)
InitEngine ==
    /\ config \in Configs
    /\ state \in [auctionId : {"test-001"}, currentPrice : Prices, yourMaxBid : {config.maxBid},
                  timeRemaining : Times, bidHistory : Histories,
                  estimatedValue : {config.targetValue}, competitorCount : Counts]
    /\ returned = <<>>
    /\ lastFeedback = NoFeedback
    /\ InitServer

\* the same, for a snapshot with a positive estimatedValue
InitValued ==
    /\ InitEngine
    /\ Gt(state.estimatedValue, Int2Num(0))

\* a decideBid that adapts aggressiveness on every call
DecideBid_Adapting ==
    /\ Len(returned) < MaxEval
    /\ returned' = Append(returned, decideBid(state, config))
    /\ config' = [config EXCEPT !.aggressiveness = MathMin(Int2Num(1), Add(@, Dec(10)))]
    /\ UNCHANGED <<state, lastFeedback>>
    /\ UNCHANGED serverVars

\* strategy.decideBid(state): the call reads state and this.config and assigns neither
DecideBid ==
    /\ Len(returned) < MaxEval
    /\ returned' = Append(returned, decideBid(state, config))
    /\ UNCHANGED <<state, config, lastFeedback>>
    /\ UNCHANGED serverVars

NextEngine == DecideBid

SpecEngine == InitEngine /\ [][NextEngine]_vars

SpecValued == InitValued /\ [][NextEngine]_vars

\* the snapshots and configs of the test script's scenarios, and their neighbours
ScenarioPrices == Nums({500, 850, 900, 1100})

ScenarioTimes == Nums({12, 120, 600})

ScenarioBids == {[amount |-> Int2Num(800), bidder |-> "opponent_1"],
                 [amount |-> Int2Num(850), bidder |-> "self"]}

ScenarioHistories == UNION {[1..k -> ScenarioBids] : k \in 0..MaxHist}

ScenarioConfigs == [maxBid : Nums({1000}), targetValue : Nums({1200}),
                    aggressiveness : Aggressions, sniping : BOOLEAN,
                    snipeWindow : Nums({10, 15})]

InitScenario ==
    /\ config \in ScenarioConfigs
    /\ state \in [auctionId : {"test-001"}, currentPrice : ScenarioPrices,
                  yourMaxBid : {config.maxBid}, timeRemaining : ScenarioTimes,
                  bidHistory : ScenarioHistories, estimatedValue : {config.targetValue},
                  competitorCount : Nums({2, 5})]
    /\ returned = <<>>
    /\ lastFeedback = NoFeedback
    /\ InitServer

SpecScenario == InitScenario /\ [][NextEngine]_vars

\* the strategy adapting between decisions: updateStrategy and decideBid in any order
StartingAggressions == {Int2Num(0), Dec(25), Dec(30), Dec(70), Dec(95), Int2Num(1)}

\* feedback objects; NaN stands for a field the caller left out
EngineFeedbacks == [won : BOOLEAN,
                    finalPrice : {NaN} \cup Nums({900, 1000}),
                    efficiency : {NaN, Dec(90), Dec(92)}]

InitFeedback ==
    /\ config \in [maxBid : Nums({1000}), targetValue : Nums({1200}),
                   aggressiveness : StartingAggressions, sniping : {FALSE},
                   snipeWindow : Nums({10})]
    /\ state \in [auctionId : {"test-001"}, currentPrice : Nums({500, 850}),
                  yourMaxBid : {config.maxBid}, timeRemaining : Nums({120, 600}),
                  bidHistory : {h \in ScenarioHistories : Len(h) <= 1},
                  estimatedValue : {config.targetValue}, competitorCount : Nums({2, 5})]
    /\ returned = <<>>
    /\ lastFeedback = NoFeedback
    /\ InitServer

\* strategy.updateStrategy(feedback): this.config.aggressiveness is reassigned
UpdateStrategy ==
    /\ \E fb \in EngineFeedbacks :
        /\ config' = updateStrategy(config, fb)
        /\ lastFeedback' = fb
    /\ returned' = <<>>
    /\ UNCHANGED state
    /\ UNCHANGED serverVars

NextFeedback ==
    \/ DecideBid
    \/ UpdateStrategy

SpecFeedback == InitFeedback /\ [][NextFeedback]_vars

(***************************************************************************)
(* The MCP tool handlers (src/src/index.ts).  A handler runs from one      *)
(* await to the next in one step; calls[c].pc names the await it is        *)
(* suspended at.                                                           *)
(***************************************************************************)
\* initialize_auction's arguments; aggressiveness and snipeWindow take their defaults
InitArgs == {[maxBid |-> Int2Num(40), estimatedValue |-> Int2Num(100), sniping |-> FALSE],
             [maxBid |-> Int2Num(1000), estimatedValue |-> Int2Num(100), sniping |-> TRUE]}

\* place_bid's amount argument; NaN stands for an omitted amount
BidArgs == {NaN} \cup Nums({60})

\* auto_bid's duration argument; NaN stands for an omitted duration
Durations == {NaN} \cup Nums({480})

Intervals == {30}

Feedbacks == {NoFeedback,
              [won |-> TRUE, finalPrice |-> Int2Num(60), efficiency |-> Dec(92)],
              [won |-> FALSE, finalPrice |-> Int2Num(30), efficiency |-> Int2Num(0)]}

OpponentPrices == Nums({90})

\* the instants at which something happens; the lot closes at the last one
Instants == {0, 480, 590, 600}

EndsAt == CHOOSE t \in Instants : \A u \in Instants : u <= t

\* the page as the browser shows it now
Page == [price |-> lot.price, timer |-> Int2Num(EndsAt - now), rows |-> lot.rows]

\* the response built by the handler's catch block
ErrorResp(msg) == [kind |-> "error", isError |-> TRUE, error |-> msg]

NotFound(id) == ErrorResp("Auction " \o id \o " not found. Initialize first.")

NotFoundShort(id) == ErrorResp("Auction " \o id \o " not found.")

BrowserError == ErrorResp("Browser not initialized")

\* this.page is set: between a successful launch and the end of close()
PageOf(o) == agents[o] \in {"open", "closing"}

Free(c) == calls[c].pc = "idle"

\* a new call takes the first free slot
CanStart(c) ==
    /\ budget > 0
    /\ Free(c)
    /\ \A d \in CallIds : d < c => ~Free(d)

\* a handler returns: its slot is free again
Return(c) == [calls EXCEPT ![c] = IdleCall]

\* the response r of the handler of call c, an op call on auctionId id
Response(op, id, r) == [op |-> op, auctionId |-> id, resp |-> r]

Suspend(c, op, pc, id, o, loc) ==
    [calls EXCEPT ![c] = [op |-> op, pc |-> pc, auctionId |-> id, obj |-> o, loc |-> loc]]

\* what the three extractors read, in their order, when the browser goes away
\* under them: the lookups of the extractor at work and of those after it throw
\* inside their try blocks
PartialPages ==
    {[Page EXCEPT !.rows = <<>>],
     [Page EXCEPT !.timer = Int2Num(0), !.rows = <<>>],
     BlankPage}

\* the results an awaited getAuctionState can resolve to: a read of the page;
\* while close() is at work (this.page still set), a read of the page or of a
\* part of it; once close() has reset this.page, a throw from an extractor's
\* page check or a read of a part of the page
FetchOutcomes(o, id, estimatedValue) ==
    IF agents[o] = "open"
    THEN {[ok |-> TRUE, state |-> getAuctionState(Page, id, estimatedValue)]}
    ELSE IF agents[o] = "closing"
    THEN {[ok |-> TRUE, state |-> getAuctionState(pg, id, estimatedValue)] :
              pg \in {Page} \cup PartialPages}
    ELSE {[ok |-> FALSE]} \cup
         {[ok |-> TRUE, state |-> getAuctionState(pg, id, estimatedValue)] : pg \in PartialPages}

\* the results an awaited placeBid can resolve to: the site takes the bid (the
\* lot is open and the amount is above the price), the page shows no error
\* (success is assumed), or a failure is reported
BidOutcomes(o, amount) ==
    IF agents[o] = "open"
    THEN {"assumed", "failed"} \cup
         (IF Gt(amount, lot.price) /\ now < EndsAt THEN {"accepted"} ELSE {})
    ELSE {"failed"}

BidResult(outcome) ==
    IF outcome = "failed" THEN [success |-> FALSE, error |-> "Unknown error occurred"]
    ELSE [success |-> TRUE]

\* the page after the site has taken a bid: the page lists amounts in whole euros
LotAfterBid(amount) ==
    LET euros == Int2Num(amount.n \div amount.d)
        rows == <<euros>> \o lot.rows
    IN  [lot EXCEPT !.price = euros,
                    !.rows = IF Len(rows) > MaxRows THEN SubSeq(rows, 1, MaxRows) ELSE rows]

\* auction.state.bidHistory.push({timestamp, amount, bidder: 'self'})
PushSelfBid(o, amount) ==
    [sessions EXCEPT ![o].state.bidHistory = Append(@, [amount |-> amount, bidder |-> "self"])]

\* the outcome of a handler step: the handler returns r, or it suspends at an await
Done(c, op, id, r) == [calls |-> Return(c), response |-> Response(op, id, r)]

Await(c, op, pc, id, o, loc) == [calls |-> Suspend(c, op, pc, id, o, loc), response |-> response]

\* the step of call c has outcome nx
Step(nx) ==
    /\ calls' = nx.calls
    /\ response' = nx.response

---------------------------------------------------------------------------
\* the StrategyConfig initialize_auction builds from its arguments
SessionConfig(args) ==
    [maxBid |-> args.maxBid, targetValue |-> args.estimatedValue,
     aggressiveness |-> Dec(70), sniping |-> args.sniping, snipeWindow |-> Int2Num(10)]

\* what initialize_auction answers once the session is stored
Initialized(st) ==
    [kind |-> "initialized", success |-> TRUE,
     initialState |-> [currentPrice |-> st.currentPrice,
                       timeRemaining |-> st.timeRemaining,
                       competitorCount |-> st.competitorCount]]

\* initialize_auction, its arguments drawn from argsets: the config and the
\* agent are built, chromium.launch is awaited
StartInitializeFrom(c, argsets) ==
    \E id \in AuctionIds, args \in argsets, o \in ObjIds :
        /\ CanStart(c)
        /\ agents[o] = "unborn"
        /\ \A q \in ObjIds : q < o => agents[q] # "unborn"
        /\ agents' = [agents EXCEPT ![o] = "new"]
        /\ Step(Await(c, "initialize_auction", "init_launch", id, o,
                      [config |-> SessionConfig(args)]))
        /\ budget' = budget - 1
        /\ UNCHANGED <<activeAuctions, sessions, lot, placed, now>>
        /\ UNCHANGED engineVars

StartInitialize(c) == StartInitializeFrom(c, InitArgs)

\* agent.initialize() resolves or throws; on success navigateToAuction is awaited
InitLaunched(c) ==
    /\ calls[c].pc = "init_launch"
    /\ LET id == calls[c].auctionId
           o == calls[c].obj
       IN  \E ok \in BOOLEAN :
            IF ok
            THEN /\ agents' = [agents EXCEPT ![o] = "open"]
                 /\ Step(Await(c, "initialize_auction", "init_navigate", id, o, calls[c].loc))
            ELSE /\ agents' = agents
                 /\ Step(Done(c, "initialize_auction", id, ErrorResp("Failed to launch browser")))
    /\ UNCHANGED <<activeAuctions, sessions, lot, placed, now, budget>>
    /\ UNCHANGED engineVars

\* agent.navigateToAuction() resolves or throws; on success getAuctionState is awaited
InitNavigated(c) ==
    /\ calls[c].pc = "init_navigate"
    /\ LET id == calls[c].auctionId
           o == calls[c].obj
       IN  \E ok \in BOOLEAN :
            Step(IF ok THEN Await(c, "initialize_auction", "init_fetch", id, o, calls[c].loc)
                 ELSE Done(c, "initialize_auction", id, ErrorResp("Navigation timeout")))
    /\ UNCHANGED <<activeAuctions, agents, sessions, lot, placed, now, budget>>
    /\ UNCHANGED engineVars

\* the first snapshot arrives: the session is stored under auctionId
InitFetched(c) ==
    /\ calls[c].pc = "init_fetch"
    /\ LET id == calls[c].auctionId
           o == calls[c].obj
           cfg == calls[c].loc.config
       IN  \E out \in FetchOutcomes(o, id, cfg.targetValue) :
            IF out.ok
            THEN LET st == [out.state EXCEPT !.yourMaxBid = cfg.maxBid]
                 IN  /\ sessions' = [sessions EXCEPT ![o] = [config |-> cfg, state |-> st]]
                     /\ activeAuctions' = [activeAuctions EXCEPT ![id] = o]
                     /\ Step(Done(c, "initialize_auction", id, Initialized(st)))
            ELSE /\ Step(Done(c, "initialize_auction", id, BrowserError))
                 /\ UNCHANGED <<sessions, activeAuctions>>
    /\ UNCHANGED <<agents, lot, placed, now, budget>>
    /\ UNCHANGED engineVars

---------------------------------------------------------------------------
\* check_auction_state: the session is looked up and getAuctionState is awaited
StartCheck(c) ==
    \E id \in AuctionIds :
        /\ CanStart(c)
        /\ LET o == activeAuctions[id]
           IN  Step(IF o = 0 THEN Done(c, "check_auction_state", id, NotFound(id))
                    ELSE IF ~PageOf(o) THEN Done(c, "check_auction_state", id, BrowserError)
                    ELSE Await(c, "check_auction_state", "check_fetch", id, o, <<>>))
        /\ budget' = budget - 1
        /\ UNCHANGED <<activeAuctions, agents, sessions, lot, placed, now>>
        /\ UNCHANGED engineVars

\* a check_auction_state that lets the strategy adapt to what it has just seen
CheckFetched_Adapting(c) ==
    /\ calls[c].pc = "check_fetch"
    /\ LET id == calls[c].auctionId
           o == calls[c].obj
       IN  \E out \in FetchOutcomes(o, id, sessions[o].config.targetValue) :
            IF out.ok
            THEN LET newState == [out.state EXCEPT !.yourMaxBid = sessions[o].config.maxBid]
                     decision == decideBid(newState, sessions[o].config)
                 IN  /\ sessions' = [sessions EXCEPT
                                        ![o].state = newState,
                                        ![o].config.aggressiveness =
                                            IF decision.shouldBid THEN @
                                            ELSE MathMin(Int2Num(1), Add(@, Dec(5)))]
                     /\ Step(Done(c, "check_auction_state", id,
                                  [kind |-> "state",
                                   state |-> [currentPrice |-> newState.currentPrice,
                                              timeRemaining |-> newState.timeRemaining,
                                              competitorCount |-> newState.competitorCount,
                                              bidCount |-> Len(newState.bidHistory)],
                                   decision |-> decision]))
            ELSE /\ Step(Done(c, "check_auction_state", id, BrowserError))
                 /\ UNCHANGED sessions
    /\ UNCHANGED <<activeAuctions, agents, lot, placed, now, budget>>
    /\ UNCHANGED engineVars

\* the snapshot arrives: it is stored and the strategy is consulted
CheckFetched(c) ==
    /\ calls[c].pc = "check_fetch"
    /\ LET id == calls[c].auctionId
           o == calls[c].obj
       IN  \E out \in FetchOutcomes(o, id, sessions[o].config.targetValue) :
            IF out.ok
            THEN LET newState == [out.state EXCEPT !.yourMaxBid = sessions[o].config.maxBid]
                     decision == decideBid(newState, sessions[o].config)
                 IN  /\ sessions' = [sessions EXCEPT ![o].state = newState]
                     /\ Step(Done(c, "check_auction_state", id,
                                  [kind |-> "state",
                                   state |-> [currentPrice |-> newState.currentPrice,
                                              timeRemaining |-> newState.timeRemaining,
                                              competitorCount |-> newState.competitorCount,
                                              bidCount |-> Len(newState.bidHistory)],
                                   decision |-> decision]))
            ELSE /\ Step(Done(c, "check_auction_state", id, BrowserError))
                 /\ UNCHANGED sessions
    /\ UNCHANGED <<activeAuctions, agents, lot, placed, now, budget>>
    /\ UNCHANGED engineVars

---------------------------------------------------------------------------
\* place_bid: the amount is taken from the argument or from the strategy's
\* decision on the stored snapshot, then agent.placeBid is awaited
StartPlaceBid(c) ==
    \E id \in AuctionIds, amount \in BidArgs, force \in BOOLEAN :
        /\ CanStart(c)
        /\ budget' = budget - 1
        /\ LET o == activeAuctions[id]
           IN  IF o = 0
               THEN /\ Step(Done(c, "place_bid", id, NotFound(id)))
                    /\ placed' = placed
               ELSE LET decision == decideBid(sessions[o].state, sessions[o].config)
                        bidAmount == IF Truthy(amount) THEN amount
                                     ELSE IF "amount" \in DOMAIN decision THEN decision.amount
                                     ELSE NaN
                    IN  IF ~Truthy(amount) /\ ~decision.shouldBid /\ ~force
                        THEN /\ Step(Done(c, "place_bid", id,
                                          [kind |-> "declined", success |-> FALSE,
                                           message |-> "Strategy recommends not bidding",
                                           reasoning |-> decision.reasoning]))
                             /\ placed' = placed
                        ELSE IF ~Truthy(bidAmount)
                        THEN /\ Step(Done(c, "place_bid", id,
                                          ErrorResp("No bid amount specified or recommended")))
                             /\ placed' = placed
                        ELSE /\ placed' = [obj |-> o, amount |-> bidAmount]
                             /\ Step(IF ~PageOf(o) THEN Done(c, "place_bid", id, BrowserError)
                                     ELSE Await(c, "place_bid", "place_wait", id, o,
                                                [bidAmount |-> bidAmount, force |-> force]))
        /\ UNCHANGED <<activeAuctions, agents, sessions, lot, now>>
        /\ UNCHANGED engineVars

\* agent.placeBid resolves: a successful bid is appended to the stored history
PlaceResolved(c) ==
    /\ calls[c].pc = "place_wait"
    /\ LET o == calls[c].obj
           bidAmount == calls[c].loc.bidAmount
       IN  \E outcome \in BidOutcomes(o, bidAmount) :
            LET result == BidResult(outcome)
            IN  /\ sessions' = IF result.success THEN PushSelfBid(o, bidAmount) ELSE sessions
                /\ lot' = IF outcome = "accepted" THEN LotAfterBid(bidAmount) ELSE lot
                /\ Step(Done(c, "place_bid", calls[c].auctionId,
                             [kind |-> "bid", amount |-> bidAmount] @@ result))
    /\ UNCHANGED <<activeAuctions, agents, placed, now, budget>>
    /\ UNCHANGED engineVars

---------------------------------------------------------------------------
\* the end of a runAutoBid tick of call c: the duration check, then the sleep
AfterTick(c, loc) ==
    IF Truthy(loc.duration) /\ Ge(Int2Num(now - loc.startTime), loc.duration)
    THEN Done(c, "auto_bid", calls[c].auctionId,
              [kind |-> "auto", completed |-> FALSE, timeout |-> TRUE, events |-> loc.events])
    ELSE Await(c, "auto_bid", "auto_sleep", calls[c].auctionId, calls[c].obj,
               [loc EXCEPT !.wakeAt = now + loc.checkInterval])

\* auto_bid, its duration argument drawn from durations: the session is looked
\* up and the first runAutoBid tick awaits getAuctionState
StartAutoBidFrom(c, durations) ==
    \E id \in AuctionIds, checkInterval \in Intervals, duration \in durations :
        /\ CanStart(c)
        /\ budget' = budget - 1
        /\ LET o == activeAuctions[id]
           IN  Step(IF o = 0 THEN Done(c, "auto_bid", id, NotFound(id))
                    ELSE IF ~PageOf(o) THEN Done(c, "auto_bid", id, BrowserError)
                    ELSE Await(c, "auto_bid", "auto_fetch", id, o,
                               [startTime |-> now, events |-> <<>>, ticks |-> 1,
                                checkInterval |-> checkInterval, duration |-> duration,
                                wakeAt |-> 0, decision |-> <<>>]))
        /\ UNCHANGED <<activeAuctions, agents, sessions, lot, placed, now>>
        /\ UNCHANGED engineVars

StartAutoBid(c) == StartAutoBidFrom(c, Durations)

\* the tick's snapshot arrives: it is stored and logged, the closed check and
\* the strategy follow, and a recommended bid is handed to agent.placeBid
AutoFetched(c) ==
    /\ calls[c].pc = "auto_fetch"
    /\ LET id == calls[c].auctionId
           o == calls[c].obj
           loc == calls[c].loc
       IN  \E out \in FetchOutcomes(o, id, sessions[o].config.targetValue) :
            IF ~out.ok
            THEN /\ Step(Done(c, "auto_bid", id, BrowserError))
                 /\ UNCHANGED <<sessions, placed>>
            ELSE LET newState == [out.state EXCEPT !.yourMaxBid = sessions[o].config.maxBid]
                     logged == [loc EXCEPT !.events =
                                   Append(@, [timeRemaining |-> newState.timeRemaining,
                                              currentPrice |-> newState.currentPrice])]
                     decision == decideBid(newState, sessions[o].config)
                 IN  /\ sessions' = [sessions EXCEPT ![o].state = newState]
                     /\ IF Le(newState.timeRemaining, Int2Num(0))
                        THEN /\ Step(Done(c, "auto_bid", id,
                                          [kind |-> "auto", completed |-> TRUE,
                                           events |-> logged.events]))
                             /\ placed' = placed
                        ELSE IF decision.shouldBid /\ Truthy(decision.amount)
                        THEN /\ placed' = [obj |-> o, amount |-> decision.amount]
                             /\ Step(IF ~PageOf(o) THEN Done(c, "auto_bid", id, BrowserError)
                                     ELSE Await(c, "auto_bid", "auto_place", id, o,
                                                [logged EXCEPT !.decision = decision]))
                        ELSE /\ placed' = placed
                             /\ Step(AfterTick(c, [logged EXCEPT !.events =
                                        Append(@, [action |-> "no_bid",
                                                   reasoning |-> decision.reasoning,
                                                   strategy |-> decision.strategy])]))
    /\ UNCHANGED <<activeAuctions, agents, lot, now, budget>>
    /\ UNCHANGED engineVars

\* a tick that records its bid in the stored history whatever placeBid answered
AutoPlaced_AlwaysRecords(c) ==
    /\ calls[c].pc = "auto_place"
    /\ LET o == calls[c].obj
           loc == calls[c].loc
           decision == loc.decision
       IN  \E outcome \in BidOutcomes(o, decision.amount) :
            LET result == BidResult(outcome)
                logged == [loc EXCEPT !.decision = <<>>,
                                      !.events = Append(@, [action |-> "bid_placed",
                                                            amount |-> decision.amount,
                                                            success |-> result.success,
                                                            reasoning |-> decision.reasoning,
                                                            strategy |-> decision.strategy])]
            IN  /\ sessions' = PushSelfBid(o, decision.amount)
                /\ lot' = IF outcome = "accepted" THEN LotAfterBid(decision.amount) ELSE lot
                /\ Step(AfterTick(c, logged))
    /\ UNCHANGED <<activeAuctions, agents, placed, now, budget>>
    /\ UNCHANGED engineVars

\* the tick's placeBid resolves: the outcome is logged and a successful bid is
\* appended to the stored history
AutoPlaced(c) ==
    /\ calls[c].pc = "auto_place"
    /\ LET o == calls[c].obj
           loc == calls[c].loc
           decision == loc.decision
       IN  \E outcome \in BidOutcomes(o, decision.amount) :
            LET result == BidResult(outcome)
                logged == [loc EXCEPT !.decision = <<>>,
                                      !.events = Append(@, [action |-> "bid_placed",
                                                            amount |-> decision.amount,
                                                            success |-> result.success,
                                                            reasoning |-> decision.reasoning,
                                                            strategy |-> decision.strategy])]
            IN  /\ sessions' = IF result.success THEN PushSelfBid(o, decision.amount) ELSE sessions
                /\ lot' = IF outcome = "accepted" THEN LotAfterBid(decision.amount) ELSE lot
                /\ Step(AfterTick(c, logged))
    /\ UNCHANGED <<activeAuctions, agents, placed, now, budget>>
    /\ UNCHANGED engineVars

\* the sleep of checkInterval seconds is over: runAutoBid calls itself and
\* awaits getAuctionState again
AutoWake(c) ==
    /\ calls[c].pc = "auto_sleep"
    /\ now >= calls[c].loc.wakeAt
    /\ calls[c].loc.ticks < MaxTicks
    /\ LET id == calls[c].auctionId
           o == calls[c].obj
       IN  Step(IF ~PageOf(o) THEN Done(c, "auto_bid", id, BrowserError)
                ELSE Await(c, "auto_bid", "auto_fetch", id, o,
                           [calls[c].loc EXCEPT !.ticks = @ + 1, !.wakeAt = 0]))
    /\ UNCHANGED <<activeAuctions, agents, sessions, lot, placed, now, budget>>
    /\ UNCHANGED engineVars

---------------------------------------------------------------------------
\* a close_auction that answers success for a key the registry does not hold
StartClose_Idempotent(c) ==
    \E id \in AuctionIds, feedback \in Feedbacks :
        /\ CanStart(c)
        /\ budget' = budget - 1
        /\ LET o == activeAuctions[id]
           IN  IF o = 0
               THEN /\ Step(Done(c, "close_auction", id, [kind |-> "closed", success |-> TRUE]))
                    /\ UNCHANGED <<sessions, agents>>
               ELSE /\ sessions' = IF feedback = NoFeedback THEN sessions
                                   ELSE [sessions EXCEPT ![o].config = updateStrategy(@, feedback)]
                    /\ agents' = [agents EXCEPT ![o] = IF @ = "open" THEN "closing" ELSE @]
                    /\ Step(Await(c, "close_auction", "close_wait", id, o,
                                  [feedback |-> feedback]))
        /\ UNCHANGED <<activeAuctions, lot, placed, now>>
        /\ UNCHANGED engineVars

\* a close_auction that releases the handle without applying the feedback
StartClose_FeedbackDropped(c) ==
    \E id \in AuctionIds, feedback \in Feedbacks :
        /\ CanStart(c)
        /\ budget' = budget - 1
        /\ LET o == activeAuctions[id]
           IN  IF o = 0
               THEN /\ Step(Done(c, "close_auction", id, NotFoundShort(id)))
                    /\ UNCHANGED <<sessions, agents>>
               ELSE /\ sessions' = sessions
                    /\ agents' = [agents EXCEPT ![o] = IF @ = "open" THEN "closing" ELSE @]
                    /\ Step(Await(c, "close_auction", "close_wait", id, o,
                                  [feedback |-> feedback]))
        /\ UNCHANGED <<activeAuctions, lot, placed, now>>
        /\ UNCHANGED engineVars

\* close_auction: the session is looked up, the feedback is applied and
\* agent.close() is awaited
StartClose(c) ==
    \E id \in AuctionIds, feedback \in Feedbacks :
        /\ CanStart(c)
        /\ budget' = budget - 1
        /\ LET o == activeAuctions[id]
           IN  IF o = 0
               THEN /\ Step(Done(c, "close_auction", id, NotFoundShort(id)))
                    /\ UNCHANGED <<sessions, agents>>
               ELSE /\ sessions' = IF feedback = NoFeedback THEN sessions
                                   ELSE [sessions EXCEPT ![o].config = updateStrategy(@, feedback)]
                    /\ agents' = [agents EXCEPT ![o] = IF @ = "open" THEN "closing" ELSE @]
                    /\ Step(Await(c, "close_auction", "close_wait", id, o,
                                  [feedback |-> feedback]))
        /\ UNCHANGED <<activeAuctions, lot, placed, now>>
        /\ UNCHANGED engineVars

\* agent.close() resolves: the agent drops its browser and the key is deleted
CloseResolved(c) ==
    /\ calls[c].pc = "close_wait"
    /\ agents' = [agents EXCEPT ![calls[c].obj] = "closed"]
    /\ activeAuctions' = [activeAuctions EXCEPT ![calls[c].auctionId] = 0]
    /\ Step(Done(c, "close_auction", calls[c].auctionId, [kind |-> "closed", success |-> TRUE]))
    /\ UNCHANGED <<sessions, lot, placed, now, budget>>
    /\ UNCHANGED engineVars

---------------------------------------------------------------------------
\* screenshot: the session is looked up and agent.screenshot is awaited
StartScreenshot(c) ==
    \E id \in AuctionIds :
        /\ CanStart(c)
        /\ budget' = budget - 1
        /\ LET o == activeAuctions[id]
           IN  Step(IF o = 0 THEN Done(c, "screenshot", id, NotFoundShort(id))
                    ELSE IF ~PageOf(o) THEN Done(c, "screenshot", id, BrowserError)
                    ELSE Await(c, "screenshot", "shot_wait", id, o, <<>>))
        /\ UNCHANGED <<activeAuctions, agents, sessions, lot, placed, now>>
        /\ UNCHANGED engineVars

\* page.screenshot resolves or throws
ShotResolved(c) ==
    /\ calls[c].pc = "shot_wait"
    /\ \E ok \in BOOLEAN :
        Step(Done(c, "screenshot", calls[c].auctionId,
                  IF ok /\ agents[calls[c].obj] = "open"
                  THEN [kind |-> "screenshot", success |-> TRUE]
                  ELSE ErrorResp("Screenshot failed")))
    /\ UNCHANGED <<activeAuctions, agents, sessions, lot, placed, now, budget>>
    /\ UNCHANGED engineVars

---------------------------------------------------------------------------
\* the environment: another bidder raises the price and the page lists the bid
OpponentBids ==
    /\ \E p \in OpponentPrices :
        /\ Gt(p, lot.price)
        /\ lot' = LotAfterBid(p)
    /\ UNCHANGED <<activeAuctions, agents, sessions, calls, response, placed, now, budget>>
    /\ UNCHANGED engineVars

\* the environment: time passes, and the page's countdown with it
ClockTick ==
    /\ \E t \in Instants :
        /\ t > now
        /\ \A u \in Instants : u > now => t <= u
        /\ now' = t
    /\ UNCHANGED <<activeAuctions, agents, sessions, lot, calls, response, placed, budget>>
    /\ UNCHANGED engineVars

Init ==
    /\ InitServer
    /\ config = [maxBid |-> Int2Num(1000), targetValue |-> Int2Num(1200), aggressiveness |-> Dec(70),
                 sniping |-> FALSE, snipeWindow |-> Int2Num(10)]
    /\ state = getAuctionState(BlankPage, "test-001", Int2Num(1200))
    /\ returned = <<>>
    /\ lastFeedback = NoFeedback

Next ==
    \/ \E c \in CallIds : StartInitialize(c)
    \/ \E c \in CallIds : InitLaunched(c)
    \/ \E c \in CallIds : InitNavigated(c)
    \/ \E c \in CallIds : InitFetched(c)
    \/ \E c \in CallIds : StartCheck(c)
    \/ \E c \in CallIds : CheckFetched(c)
    \/ \E c \in CallIds : StartPlaceBid(c)
    \/ \E c \in CallIds : PlaceResolved(c)
    \/ \E c \in CallIds : StartAutoBid(c)
    \/ \E c \in CallIds : AutoFetched(c)
    \/ \E c \in CallIds : AutoPlaced(c)
    \/ \E c \in CallIds : AutoWake(c)
    \/ \E c \in CallIds : StartClose(c)
    \/ \E c \in CallIds : CloseResolved(c)
    \/ \E c \in CallIds : StartScreenshot(c)
    \/ \E c \in CallIds : ShotResolved(c)
    \/ OpponentBids
    \/ ClockTick

Spec == Init /\ [][Next]_vars

(***************************************************************************)
(* One session at work: the server after a successful initialize_auction,  *)
(* then auto_bid and close_auction calls on that session.  The last        *)
(* instant of the clock stands for the lot's close and all the time after  *)
(* it: the page's countdown stays at zero and every timer set fires.       *)
(***************************************************************************)
\* auto_bid's duration argument: omitted, zero, or eight minutes
LoopDurations == {NaN} \cup Nums({0, 480})

InitSession ==
    /\ lastFeedback = NoFeedback
    /\ config = [maxBid |-> Int2Num(1000), targetValue |-> Int2Num(1200), aggressiveness |-> Dec(70),
                 sniping |-> FALSE, snipeWindow |-> Int2Num(10)]
    /\ state = getAuctionState(BlankPage, "test-001", Int2Num(1200))
    /\ returned = <<>>
    /\ lot = [price |-> Int2Num(50), rows |-> <<>>]
    /\ now = 0
    /\ \E id \in AuctionIds, args \in InitArgs :
        LET cfg == SessionConfig(args)
            st == [getAuctionState(Page, id, cfg.targetValue) EXCEPT !.yourMaxBid = cfg.maxBid]
        IN  /\ activeAuctions = [k \in AuctionIds |-> IF k = id THEN 1 ELSE 0]
            /\ agents = [o \in ObjIds |-> IF o = 1 THEN "open" ELSE "unborn"]
            /\ sessions = [o \in ObjIds |-> IF o = 1 THEN [config |-> cfg, state |-> st]
                                            ELSE NoSession]
            /\ response = Response("initialize_auction", id, Initialized(st))
    /\ calls = [c \in CallIds |-> IdleCall]
    /\ placed = NothingPlaced
    /\ budget = MaxOps - 1

\* auto_bid is called while no other run of the session is at work
StartAutoBidLoop(c) ==
    /\ \A d \in CallIds : calls[d].op # "auto_bid"
    /\ StartAutoBidFrom(c, LoopDurations)

\* the sleep of a run without a duration budget ends after the lot's close: the
\* next tick awaits getAuctionState; past MaxTicks ticks the tick count stays
\* and the log starts afresh
AutoWakeLate(c) ==
    /\ calls[c].pc = "auto_sleep"
    /\ now = EndsAt
    /\ ~Truthy(calls[c].loc.duration)
    /\ LET id == calls[c].auctionId
           o == calls[c].obj
           loc == calls[c].loc
       IN  Step(IF ~PageOf(o) THEN Done(c, "auto_bid", id, BrowserError)
                ELSE Await(c, "auto_bid", "auto_fetch", id, o,
                           IF loc.ticks < MaxTicks
                           THEN [loc EXCEPT !.ticks = @ + 1, !.wakeAt = 0]
                           ELSE [loc EXCEPT !.events = <<>>, !.wakeAt = 0]))
    /\ UNCHANGED <<activeAuctions, agents, sessions, lot, placed, now, budget>>
    /\ UNCHANGED engineVars

NextSession ==
    \/ \E c \in CallIds : StartAutoBidLoop(c)
    \/ \E c \in CallIds : AutoFetched(c)
    \/ \E c \in CallIds : AutoPlaced(c)
    \/ \E c \in CallIds : AutoWake(c)
    \/ \E c \in CallIds : AutoWakeLate(c)
    \/ \E c \in CallIds : StartClose(c)
    \/ \E c \in CallIds : CloseResolved(c)
    \/ OpponentBids
    \/ ClockTick

\* every awaited collaborator call returns, every timer fires, time passes;
\* that an awaited getAuctionState returns is stated on the call's position
FairSession ==
    /\ \A c \in CallIds : []<>(calls[c].pc # "auto_fetch")
    /\ \A c \in CallIds : WF_vars(AutoPlaced(c))
    /\ \A c \in CallIds : WF_vars(AutoWake(c))
    /\ \A c \in CallIds : WF_vars(AutoWakeLate(c))
    /\ \A c \in CallIds : WF_vars(CloseResolved(c))
    /\ WF_vars(ClockTick)

SpecSession == InitSession /\ [][NextSession]_vars /\ FairSession

(***************************************************************************)
(* Session creation: initialize_auction called with every kind of          *)
(* estimatedValue, then check_auction_state on what it stored.             *)
(***************************************************************************)
\* initialize_auction's arguments, estimatedValue missing (NaN), negative,
\* zero or positive
CreateArgs == [maxBid : Nums({40, 1000}), estimatedValue : Values, sniping : BOOLEAN]

StartInitializeAny(c) == StartInitializeFrom(c, CreateArgs)

NextCreate ==
    \/ \E c \in CallIds : StartInitializeAny(c)
    \/ \E c \in CallIds : InitLaunched(c)
    \/ \E c \in CallIds : InitNavigated(c)
    \/ \E c \in CallIds : InitFetched(c)
    \/ \E c \in CallIds : StartCheck(c)
    \/ \E c \in CallIds : CheckFetched(c)
    \/ ClockTick

SpecCreate == Init /\ [][NextCreate]_vars

(***************************************************************************)
(* Properties                                                              *)
(***************************************************************************)
\* the signals decideBid computes for the snapshot under evaluation
ValueRatioNow == Div(state.currentPrice, state.estimatedValue)

TimeRatioNow == Div(state.timeRemaining, Int2Num(60))

Called == Len(returned) > 0

\* C1: whenever decideBid returns shouldBid = true the amount is <= config.maxBid,
\* and no bid is recommended when currentPrice already exceeds maxBid.
C1_BidWithinMaxBid ==
    \A i \in DOMAIN returned :
        returned[i].shouldBid =>
            /\ Le(returned[i].amount, config.maxBid)
            /\ ~Gt(state.currentPrice, config.maxBid)

\* C2: whenever decideBid returns shouldBid = true the amount is >= currentPrice.
C2_BidNotBelowPrice ==
    \A i \in DOMAIN returned :
        returned[i].shouldBid => Ge(returned[i].amount, state.currentPrice)

\* C3: every amount handed to the agent's placeBid, by place_bid or by an auto_bid
\* tick, is <= the maxBid the session was initialized with.
C3_PlacedWithinMaxBid ==
    placed # NothingPlaced => Le(placed.amount, sessions[placed.obj].config.maxBid)

\* C4: with estimatedValue > 0 and currentPrice >= estimatedValue, decideBid
\* returns shouldBid = false in every phase and in the snipe window.
C4_NoBidWhenOverpriced ==
    \A i \in DOMAIN returned :
        (Gt(state.estimatedValue, Int2Num(0)) /\ Ge(state.currentPrice, state.estimatedValue))
            => ~returned[i].shouldBid

C4_Witness ==
    /\ Called
    /\ Gt(state.estimatedValue, Int2Num(0))
    /\ Ge(state.currentPrice, state.estimatedValue)
    /\ config.sniping /\ Le(state.timeRemaining, config.snipeWindow)
    /\ ~WeAreWinning(state)
    /\ Gt(config.maxBid, state.currentPrice)

\* C5: with estimatedValue <= 0 the decision is the one obtained by taking
\* valueRatio = 1.0 (value factor 0), so no NaN, Infinity or negative ratio
\* reaches a threshold comparison.
C5_NeutralRatio ==
    \A i \in DOMAIN returned :
        Le(state.estimatedValue, Int2Num(0)) =>
            returned[i] = decideBidWith(state, config, Int2Num(1),
                              calculateSenteValue([state EXCEPT !.currentPrice = Int2Num(1),
                                                                !.estimatedValue = Int2Num(1)]))

C7_AmountIffShouldBid ==
    \A i \in DOMAIN returned :
        ("amount" \in DOMAIN returned[i]) <=> returned[i].shouldBid

C7_Witness ==
    /\ Called
    /\ returned[1].shouldBid
    /\ "amount" \in DOMAIN returned[1]
    /\ Gt(TimeRatioNow, Int2Num(5))

\* C8: every decision returned by decideBid has a non-empty reasoning string.
C8_ReasoningPopulated ==
    \A i \in DOMAIN returned : returned[i].reasoning # ""

C8_Witness ==
    /\ Called
    /\ ~returned[1].shouldBid
    /\ returned[1].strategy = "gote"
    /\ Le(TimeRatioNow, Int2Num(1))
    /\ ~(config.sniping /\ Le(state.timeRemaining, config.snipeWindow))

C10_SnipeOverride ==
    \A i \in DOMAIN returned :
        (config.sniping /\ Le(state.timeRemaining, config.snipeWindow))
            <=> returned[i] = executeSnipeStrategy(state, ValueRatioNow, config)

C10_Witness ==
    /\ Called
    /\ config.sniping
    /\ Le(state.timeRemaining, config.snipeWindow)
    /\ Gt(TimeRatioNow, Int2Num(5))
    /\ returned[1] = executeSnipeStrategy(state, ValueRatioNow, config)
    /\ returned[1].shouldBid

\* the snapshot under evaluation has exactly five minutes left and no snipe override
AtFiveMinutes ==
    /\ state.timeRemaining = Int2Num(300)
    /\ ~(config.sniping /\ Le(state.timeRemaining, config.snipeWindow))

\* C11 (as stated): at timeRemaining = 300 exactly, snipe override not active,
\* the decision is the Exploration policy's decision for the snapshot.
C11_ExplorationAtFiveMinutes ==
    \A i \in DOMAIN returned :
        AtFiveMinutes => returned[i] = earlyGameStrategy(state, ValueRatioNow, WeAreWinning(state))

\* C11 (amended): at timeRemaining = 300 exactly, snipe override not active,
\* the decision is the Contested policy's decision for the snapshot.
C11_ContestedAtFiveMinutes ==
    \A i \in DOMAIN returned :
        AtFiveMinutes =>
            returned[i] = midGameStrategy(state, ValueRatioNow, calculateSenteValue(state),
                                          WeAreWinning(state), config)

C11_Witness ==
    /\ Called
    /\ AtFiveMinutes
    /\ returned[1].shouldBid
    /\ returned[1].confidence = Dec(75)

\* Scenario B: 850 on a lot valued 1200, two minutes left, our bid is the last,
\* bid pressure below 0.7, sniping off
ScenarioB ==
    /\ state.currentPrice = Int2Num(850)
    /\ state.estimatedValue = Int2Num(1200)
    /\ state.timeRemaining = Int2Num(120)
    /\ WeAreWinning(state)
    /\ Lt(calculateBidPressure(state), Dec(70))
    /\ ~config.sniping

\* C12 (as stated): in Scenario B decideBid applies the Terminal policy and
\* returns hold with confidence 0.95.
C12_ScenarioB_TerminalHold ==
    \A i \in DOMAIN returned :
        ScenarioB =>
            /\ returned[i] = endGameStrategy(state, ValueRatioNow, calculateBidPressure(state),
                                             WeAreWinning(state), config)
            /\ ~returned[i].shouldBid
            /\ returned[i].confidence = Dec(95)

\* C12 (amended): in Scenario B decideBid applies the Contested policy; it
\* returns hold with confidence 0.85 unless senteValue > 0.6 and
\* aggressiveness > 0.5, and never the Terminal hold of confidence 0.95.
C12_ScenarioB_ContestedHold ==
    \A i \in DOMAIN returned :
        ScenarioB =>
            /\ returned[i] = midGameStrategy(state, ValueRatioNow, calculateSenteValue(state),
                                             WeAreWinning(state), config)
            /\ returned[i].confidence # Dec(95)
            /\ ~(Gt(calculateSenteValue(state), Dec(60)) /\ Gt(config.aggressiveness, Dec(50)))
                   => (~returned[i].shouldBid /\ returned[i].confidence = Dec(85))

C12_Witness ==
    /\ Called
    /\ ScenarioB
    /\ state.competitorCount = Int2Num(2)
    /\ config.aggressiveness = Dec(70)
    /\ ~returned[1].shouldBid
    /\ returned[1].confidence = Dec(85)

C14_AggressivenessInRange ==
    /\ Ge(config.aggressiveness, Int2Num(0))
    /\ Le(config.aggressiveness, Int2Num(1))

\* a loss below maxBid has been fed back, the aggressiveness stands at the cap,
\* and decideBid has been called since
C14_Witness ==
    /\ lastFeedback # NoFeedback
    /\ ~lastFeedback.won
    /\ Lt(lastFeedback.finalPrice, config.maxBid)
    /\ config.aggressiveness = Int2Num(1)
    /\ Called

\* the auto_bid runs in flight
AutoRuns == {c \in CallIds : calls[c].op = "auto_bid"}

\* the handler of call c returns in this step
ReturnsNow(c) ==
    /\ calls'[c].pc = "idle"
    /\ calls[c].pc # "idle" \/ (budget' # budget /\ CanStart(c))

\* the most recent response is an auto_bid result with completed = true
EndedResponse ==
    /\ response.op = "auto_bid"
    /\ response.resp.kind = "auto"
    /\ response.resp.completed

\* C15 (background): no snapshot the agent has handed to the server, stored in
\* a session or logged by a run, has timeRemaining <= 0.
ClosedSnapshotNeverSeen ==
    /\ \A o \in ObjIds :
          sessions[o] # NoSession => Gt(sessions[o].state.timeRemaining, Int2Num(0))
    /\ \A c \in AutoRuns : \A i \in DOMAIN calls[c].loc.events :
          "timeRemaining" \in DOMAIN calls[c].loc.events[i]
              => Gt(calls[c].loc.events[i].timeRemaining, Int2Num(0))

\* C16: an auto_bid run started without a duration, at work on an open handle
\* once the page countdown has reached zero, eventually returns with
\* ended = true (unless the handle is closed under it).
C16_EndsOnceClosed ==
    \A c \in CallIds :
        (/\ calls[c].op = "auto_bid"
         /\ IsNaN(calls[c].loc.duration)
         /\ now = EndsAt
         /\ agents[calls[c].obj] = "open")
            ~> (EndedResponse \/ \A o \in ObjIds : agents[o] # "open")

\* C17: a run with a duration budget >= 0 that has not seen the auction closed
\* does not go to sleep at the end of a tick at which the elapsed time is
\* >= duration: it has returned ended = false, timedOut = true.
C17_TimesOutAtFirstTickOver ==
    \A c \in AutoRuns :
        (/\ calls[c].pc = "auto_sleep"
         /\ ~IsNaN(calls[c].loc.duration)
         /\ Ge(calls[c].loc.duration, Int2Num(0)))
            => Lt(Int2Num(calls[c].loc.wakeAt - calls[c].loc.checkInterval
                          - calls[c].loc.startTime),
                  calls[c].loc.duration)

\* C18: a run waiting for a tick to start or for the tick's snapshot, and
\* handing no amount to placeBid in the step, does not end with the handler's
\* error response when the fetch fails: it goes on, or returns its own result
\* with the log.
C18_FetchFailureNotFatal ==
    [][\A c \in CallIds :
          (calls[c].pc \in {"auto_sleep", "auto_fetch"} /\ ReturnsNow(c) /\ placed' = placed)
              => response'.resp.kind = "auto"]_vars

\* C19: a handler step that hands an amount to agent.placeBid never returns
\* the handler's error response: a failed submission comes back from the
\* awaited call as {success: false, error}.
C19_BidFailureInBand ==
    [][\A c \in CallIds :
          (placed' # placed /\ ReturnsNow(c)) => response'.resp.kind # "error"]_vars

\* C20: an opened handle that has been stored in the registry is still the
\* one its key refers to: a second initialize_auction for the key has either
\* failed or released it.
C20_NoOrphanedHandle ==
    \A o \in ObjIds :
        (sessions[o] # NoSession /\ agents[o] = "open")
            => \E id \in AuctionIds : activeAuctions[id] = o

\* C21: when an initialize_auction call stores its session under a key that
\* already holds the session of a call that started after it (so the two
\* calls overlapped), the handle of that other session is no longer open:
\* two overlapping initializations never leave two open handles for one key.
C21_OneHandlePerKey ==
    [][\A c \in CallIds :
          LET id == calls[c].auctionId
              o == calls[c].obj
              other == activeAuctions[id]
          IN  (/\ calls[c].op = "initialize_auction"
               /\ ReturnsNow(c)
               /\ other > o
               /\ agents[other] = "open"
               /\ activeAuctions'[id] = o)
                  => agents'[other] # "open"]_vars

\* C22: while a tick of an auto_bid run awaits getAuctionState or placeBid,
\* the handle it uses is open: close_auction has neither begun to release it
\* nor released it, and the session is still the one stored under the key.
C22_CloseNeverRacesTick ==
    \A c \in AutoRuns :
        calls[c].pc \in {"auto_fetch", "auto_place"}
            => /\ agents[calls[c].obj] = "open"
               /\ activeAuctions[calls[c].auctionId] = calls[c].obj

\* C23: once the session of a sleeping auto_bid run has been asked to stop
\* from outside (close_auction, the only call that acts on a running
\* session, has started on its handle), the run starts no further tick: it
\* awaits no further snapshot and hands no further amount to placeBid.
C23_StoppableBetweenTicks ==
    [][\A c \in AutoRuns :
          (calls[c].pc = "auto_sleep" /\ agents[calls[c].obj] # "open")
              => /\ calls'[c].pc # "auto_fetch"
                 /\ placed' = placed]_vars

\* the tools that work on a session of the registry
SessionOps == {"check_auction_state", "place_bid", "auto_bid", "close_auction", "screenshot"}

\* C24: a session tool called with an auctionId the registry does not hold
\* returns the not-found error in the same step (it never suspends at a
\* collaborator call) and leaves the registry, the sessions, the handles and
\* the site as they were; no amount is handed to placeBid.
C24_UnknownKeyRejected ==
    [][budget' # budget =>
          \A c \in CallIds : CanStart(c) =>
              /\ (calls'[c].pc # "idle" /\ calls'[c].op \in SessionOps)
                     => activeAuctions[calls'[c].auctionId] # 0
              /\ (/\ calls'[c].pc = "idle"
                  /\ response'.op \in SessionOps
                  /\ activeAuctions[response'.auctionId] = 0)
                     => /\ response'.resp \in {NotFound(response'.auctionId),
                                               NotFoundShort(response'.auctionId)}
                        /\ UNCHANGED <<activeAuctions, agents, sessions, lot, placed>>]_vars

\* a session tool has just been refused on a key that was closed before, while
\* the closed session's object is still there
C24_Witness ==
    /\ response.op \in SessionOps
    /\ response.resp \in {NotFound(response.auctionId), NotFoundShort(response.auctionId)}
    /\ activeAuctions[response.auctionId] = 0
    /\ \E o \in ObjIds : sessions[o] # NoSession

\* C25: no session is stored for an estimatedValue that is missing, zero or
\* negative: initialize_auction has answered such a call with an error.
C25_InvalidValueRejected ==
    \A o \in ObjIds :
        sessions[o] # NoSession => Gt(sessions[o].config.targetValue, Int2Num(0))

\* the handler of a check_auction_state call in slot c takes a step
CheckStep(c) ==
    \/ calls[c].op = "check_auction_state" /\ calls'[c] # calls[c]
    \/ /\ CanStart(c)
       /\ budget' # budget
       /\ \/ calls'[c].op = "check_auction_state"
          \/ calls'[c].pc = "idle" /\ response'.op = "check_auction_state"

\* C26 (as stated): no step of check_auction_state changes a session's config
\* or stored snapshot, or the registry.
C26_CheckIsReadOnly ==
    [][\A c \in CallIds :
          CheckStep(c) => (sessions' = sessions /\ activeAuctions' = activeAuctions)]_vars

\* C26 (amended): no step of check_auction_state changes the registry, a
\* handle or a session's config (aggressiveness included); the only thing it
\* writes is the stored snapshot of its own session, which becomes the fresh
\* snapshot its response reports.
C26_CheckWritesSnapshotOnly ==
    [][\A c \in CallIds :
          CheckStep(c) =>
              /\ activeAuctions' = activeAuctions
              /\ agents' = agents
              /\ placed' = placed
              /\ \A o \in ObjIds :
                    IF sessions[o] = NoSession THEN sessions'[o] = NoSession
                    ELSE /\ sessions'[o].config = sessions[o].config
                         /\ sessions'[o].state # sessions[o].state =>
                               /\ o = calls[c].obj
                               /\ ReturnsNow(c)
                               /\ response'.resp.kind = "state"
                               /\ response'.resp.state.currentPrice
                                      = sessions'[o].state.currentPrice
                               /\ response'.resp.state.timeRemaining
                                      = sessions'[o].state.timeRemaining
                               /\ response'.resp.state.bidCount
                                      = Len(sessions'[o].state.bidHistory)]_vars

\* check_auction_state has answered with a snapshot taken after the session's
\* first one, and that snapshot is the one now stored
C26_Witness ==
    /\ response.op = "check_auction_state"
    /\ response.resp.kind = "state"
    /\ Lt(response.resp.state.timeRemaining, Int2Num(EndsAt))
    /\ \E o \in ObjIds :
          /\ activeAuctions[response.auctionId] = o
          /\ sessions[o].state.timeRemaining = response.resp.state.timeRemaining
          /\ sessions[o].state.currentPrice = response.resp.state.currentPrice

\* C27: the step of close_auction that starts releasing the handle has applied
\* the feedback it was given (and only that) while the handle and the key are
\* still there; the step in which close_auction returns success leaves the
\* handle closed and the key absent and applies nothing more, so that later
\* session tools on the key are refused (C24).
C27_CloseAppliesThenReleases ==
    [][\A c \in CallIds :
          /\ (calls[c].pc = "idle" /\ calls'[c].pc = "close_wait") =>
                LET o == calls'[c].obj
                    fb == calls'[c].loc.feedback
                IN  /\ sessions'[o].config =
                           IF fb = NoFeedback THEN sessions[o].config
                           ELSE updateStrategy(sessions[o].config, fb)
                    /\ agents[o] = "open" => agents'[o] = "closing"
                    /\ activeAuctions' = activeAuctions
          /\ (/\ calls[c].pc = "close_wait"
              /\ ReturnsNow(c)
              /\ response'.resp.kind = "closed") =>
                /\ agents'[calls[c].obj] = "closed"
                /\ activeAuctions'[calls[c].auctionId] = 0
                /\ sessions' = sessions]_vars

\* close_auction has returned success for a session whose feedback changed the
\* engine's aggressiveness: the handle is closed and the key is gone
C27_Witness ==
    /\ response.op = "close_auction"
    /\ response.resp.kind = "closed"
    /\ activeAuctions[response.auctionId] = 0
    /\ \E o \in ObjIds :
          /\ agents[o] = "closed"
          /\ sessions[o] # NoSession
          /\ sessions[o].config.aggressiveness # Dec(70)

\* C28: a place_bid call made with force = false hands an amount to
\* agent.placeBid only if the strategy's decision on the session's stored
\* snapshot is to bid.
C28_AgainstStrategyOnlyForced ==
    [][\A c \in CallIds :
          (/\ calls[c].pc = "idle"
           /\ calls'[c].pc = "place_wait"
           /\ ~calls'[c].loc.force) =>
              LET o == calls'[c].obj
              IN  decideBid(sessions[o].state, sessions[o].config).shouldBid]_vars

\* the session of handle o has its own bid as the latest bid of the lot: the
\* last bid of its stored history is the run's own, and the site's top row and
\* price are that bid, so no competitor has bid since
OwnBidStands(o) ==
    LET hist == sessions[o].state.bidHistory
        own == hist[Len(hist)]
        euros == Int2Num(own.amount.n \div own.amount.d)
    IN  /\ Len(hist) > 0
        /\ own.bidder = "self"
        /\ lot.rows # <<>>
        /\ lot.rows[1] = euros
        /\ lot.price = euros

\* C29: when a tick of an auto_bid run receives its snapshot while the run's
\* own bid is still the latest bid of the lot, the snapshot it decides on
\* shows the operator leading (its latest bid is the operator's own).
C29_LeadingAfterOwnBid ==
    [][\A c \in AutoRuns :
          (/\ calls[c].pc = "auto_fetch"
           /\ calls'[c] # calls[c]
           /\ agents[calls[c].obj] = "open"
           /\ OwnBidStands(calls[c].obj))
              => WeAreWinning(sessions'[calls[c].obj].state)]_vars

\* the log of run c after the step: the one it returns, or the one it keeps
LogAfter(c) ==
    IF calls'[c].pc = "idle" THEN response'.resp.events ELSE calls'[c].loc.events

\* the log of run c has grown by exactly the entries es in the step
Logged(c, es) == LogAfter(c) = calls[c].loc.events \o es

\* the end of a tick of run c: the duration check, then the sleep of
\* checkInterval seconds
EndsTick(c) ==
    LET loc == calls[c].loc
        over == Truthy(loc.duration) /\ Ge(Int2Num(now - loc.startTime), loc.duration)
    IN  IF over
        THEN /\ calls'[c].pc = "idle"
             /\ response'.resp.kind = "auto"
             /\ response'.resp.timeout
        ELSE /\ calls'[c].pc = "auto_sleep"
             /\ calls'[c].loc.wakeAt = now + loc.checkInterval

\* C30: the steps of an auto_bid run come in the tick's order.  The step that
\* receives the snapshot stores and logs it, decides on that snapshot, and
\* either hands the recommended amount to placeBid or logs no_bid and ends the
\* tick; the step that receives placeBid's answer logs the outcome, appends a
\* self bid to the stored history exactly when the answer is a success, and
\* ends the tick; the end of a tick is the duration check, then the sleep; the
\* next fetch starts only from the sleep, once checkInterval seconds are over.
C30_TickOrder ==
    [][\A c \in AutoRuns :
          LET o == calls[c].obj
              loc == calls[c].loc
              moved == calls'[c] # calls[c]
              thrown == calls'[c].pc = "idle" /\ response'.resp.kind = "error"
          IN  /\ (calls[c].pc = "auto_fetch" /\ moved) =>
                    \/ thrown /\ placed' = placed /\ sessions' = sessions
                    \/ LET snap == sessions'[o].state
                           decision == decideBid(snap, sessions'[o].config)
                           seen == [timeRemaining |-> snap.timeRemaining,
                                    currentPrice |-> snap.currentPrice]
                       IN  IF decision.shouldBid /\ Truthy(decision.amount)
                           THEN /\ placed' = [obj |-> o, amount |-> decision.amount]
                                /\ \/ thrown
                                   \/ /\ calls'[c].pc = "auto_place"
                                      /\ calls'[c].loc.decision = decision
                                      /\ Logged(c, <<seen>>)
                           ELSE /\ placed' = placed
                                /\ ~thrown
                                /\ Logged(c, <<seen, [action |-> "no_bid",
                                                      reasoning |-> decision.reasoning,
                                                      strategy |-> decision.strategy]>>)
                                /\ EndsTick(c)
              /\ (calls[c].pc = "auto_place" /\ moved) =>
                    LET entry == LogAfter(c)[Len(loc.events) + 1]
                        before == sessions[o].state.bidHistory
                    IN  /\ Len(LogAfter(c)) = Len(loc.events) + 1
                        /\ entry.action = "bid_placed"
                        /\ entry.amount = loc.decision.amount
                        /\ sessions'[o].state.bidHistory =
                               IF entry.success
                               THEN Append(before, [amount |-> loc.decision.amount,
                                                    bidder |-> "self"])
                               ELSE before
                        /\ placed' = placed
                        /\ EndsTick(c)
              /\ (calls[c].pc = "auto_sleep" /\ moved) =>
                    /\ now >= loc.wakeAt
                    /\ sessions' = sessions /\ placed' = placed /\ lot' = lot
                    /\ thrown \/ (calls'[c].pc = "auto_fetch" /\ calls'[c].loc.events = loc.events)]_vars

\* the second tick of a run awaits its snapshot after the first tick's bid
\* has been answered with a success and logged
C30_Witness ==
    \E c \in AutoRuns :
        /\ calls[c].pc = "auto_fetch"
        /\ calls[c].loc.ticks = 2
        /\ \E i \in DOMAIN calls[c].loc.events :
              /\ "action" \in DOMAIN calls[c].loc.events[i]
              /\ calls[c].loc.events[i].action = "bid_placed"
              /\ calls[c].loc.events[i].success

\* C31: for one session at most one call awaits agent.placeBid and at most
\* one auto_bid run is at work.
C31_SingleFlight ==
    \A o \in ObjIds :
        /\ Cardinality({c \in CallIds : /\ calls[c].obj = o
                                        /\ calls[c].pc \in {"auto_place", "place_wait"}}) <= 1
        /\ Cardinality({c \in AutoRuns : calls[c].obj = o}) <= 1

\* the config a session would have had no feedback been given: feedback
\* changes the aggressiveness only, which initialize_auction sets to 0.7
Unfed(cfg) == [cfg EXCEPT !.aggressiveness = Dec(70)]

\* C32: the decision a tick of a running auto_bid run takes on its snapshot is
\* the decision the engine gives with the config as it was before any
\* feedback: the amount handed to placeBid, or the no_bid entry logged, is
\* that of decideBid on the snapshot with the aggressiveness unchanged.
C32_FeedbackSparesRunningLoop ==
    [][\A c \in AutoRuns :
          LET o == calls[c].obj
              asIfUnfed == decideBid(sessions'[o].state, Unfed(sessions'[o].config))
          IN  /\ (calls[c].pc = "auto_fetch" /\ calls'[c].pc = "auto_place")
                    => calls'[c].loc.decision = asIfUnfed
              /\ (calls[c].pc = "auto_fetch" /\ calls'[c].pc = "auto_sleep")
                    => ~(asIfUnfed.shouldBid /\ Truthy(asIfUnfed.amount))]_vars

\* C33: when an initialize_auction call that has launched its browser returns
\* an error, the registry is as it was and the browser it launched is no
\* longer open.
C33_FailedInitReleasesHandle ==
    [][\A c \in CallIds :
          (/\ calls[c].op = "initialize_auction"
           /\ agents[calls[c].obj] = "open"
           /\ ReturnsNow(c)
           /\ response'.resp.kind = "error")
              => /\ activeAuctions' = activeAuctions
                 /\ agents'[calls[c].obj] # "open"]_vars

\* an updateStrategy call has just been given the feedback of an efficient win
EfficientWinFedBack ==
    /\ lastFeedback' # lastFeedback \/ config' # config
    /\ lastFeedback'.won
    /\ Gt(lastFeedback'.efficiency, Dec(90))

TestConfig ==
    [maxBid |-> Int2Num(1000), targetValue |-> Int2Num(1200), aggressiveness |-> Dec(70),
     sniping |-> FALSE, snipeWindow |-> Int2Num(10)]

\* Scenario A, the test script's early game snapshot
ScenarioA ==
    [auctionId |-> "test-001", currentPrice |-> Int2Num(500), yourMaxBid |-> Int2Num(1000),
     timeRemaining |-> Int2Num(600),
     bidHistory |-> <<[amount |-> Int2Num(450), bidder |-> "opponent_1"],
                      [amount |-> Int2Num(500), bidder |-> "opponent_2"]>>,
     estimatedValue |-> Int2Num(1200), competitorCount |-> Int2Num(2)]

\* C35: with more than five minutes left and no snipe override, decideBid
\* holds with confidence 0.9 when the operator leads; otherwise it bids
\* currentPrice x 1.05 iff valueRatio < 0.6 and else holds with confidence
\* 0.8.  On Scenario A it bids 525.
C35_ExplorationPolicy ==
    /\ \A i \in DOMAIN returned :
          (Gt(TimeRatioNow, Int2Num(5)) /\ ~SnipeActive(state, config)) =>
              LET d == returned[i]
              IN  IF WeAreWinning(state)
                  THEN ~d.shouldBid /\ d.confidence = Dec(90)
                  ELSE /\ d.shouldBid <=> Lt(ValueRatioNow, Dec(60))
                       /\ d.shouldBid => d.amount = Mul(state.currentPrice, Dec(105))
                       /\ ~d.shouldBid => d.confidence = Dec(80)
    /\ decideBid(ScenarioA, TestConfig).shouldBid
    /\ decideBid(ScenarioA, TestConfig).amount = Int2Num(525)

\* decideBid has answered an early snapshot on which the operator does not
\* lead and the price is below 0.6 of the value with a bid
C35_Witness ==
    /\ Called
    /\ Gt(TimeRatioNow, Int2Num(5))
    /\ ~SnipeActive(state, config)
    /\ ~WeAreWinning(state)
    /\ Lt(ValueRatioNow, Dec(60))
    /\ returned[1].shouldBid
    /\ returned[1].amount = Mul(state.currentPrice, Dec(105))

\* Scenario E, the test script's overpriced snapshot
ScenarioE ==
    [auctionId |-> "test-006", currentPrice |-> Int2Num(1100), yourMaxBid |-> Int2Num(1000),
     timeRemaining |-> Int2Num(120),
     bidHistory |-> <<[amount |-> Int2Num(1100), bidder |-> "opponent_1"]>>,
     estimatedValue |-> Int2Num(1200), competitorCount |-> Int2Num(2)]

\* the snapshot under evaluation is in the Contested phase
Contested ==
    /\ Gt(TimeRatioNow, Int2Num(1))
    /\ Le(TimeRatioNow, Int2Num(5))
    /\ ~SnipeActive(state, config)

FightWorthwhile ==
    Gt(calculateSenteValue(state), Dec(60)) /\ Gt(config.aggressiveness, Dec(50))

\* currentPrice + currentPrice x 0.05 x (1 + initiativeValue x aggressiveness)
Candidate ==
    Add(state.currentPrice,
        Mul(Mul(state.currentPrice, Dec(5)),
            Add(Int2Num(1), Mul(calculateSenteValue(state), config.aggressiveness))))

\* C36: in the Contested phase decideBid holds with confidence 0.85 when the
\* operator leads and the fight is not worthwhile; otherwise it bids the
\* candidate iff valueRatio < 0.85 and candidate <= maxBid, and else holds
\* with confidence 0.7 and the price-too-high / max-bid reasoning, as it does
\* on Scenario E.
C36_ContestedPolicy ==
    /\ \A i \in DOMAIN returned :
          Contested =>
              LET d == returned[i]
              IN  IF WeAreWinning(state) /\ ~FightWorthwhile
                  THEN ~d.shouldBid /\ d.confidence = Dec(85)
                  ELSE /\ d.shouldBid <=> (Lt(ValueRatioNow, Dec(85)) /\ Le(Candidate, config.maxBid))
                       /\ d.shouldBid => d.amount = Candidate
                       /\ ~d.shouldBid =>
                             /\ d.confidence = Dec(70)
                             /\ d.reasoning = "Mid game - price too high or max bid reached"
    /\ ~decideBid(ScenarioE, TestConfig).shouldBid
    /\ decideBid(ScenarioE, TestConfig).confidence = Dec(70)
    /\ decideBid(ScenarioE, TestConfig).reasoning = "Mid game - price too high or max bid reached"

\* decideBid has held on a Contested snapshot whose price is below 0.85 of the
\* value because the candidate is above maxBid
C36_Witness ==
    /\ Called
    /\ Contested
    /\ ~WeAreWinning(state)
    /\ Lt(ValueRatioNow, Dec(85))
    /\ Gt(Candidate, config.maxBid)
    /\ ~returned[1].shouldBid
    /\ returned[1].confidence = Dec(70)

\* the test script's end game snapshot (Test 4)
ScenarioEndGame ==
    [auctionId |-> "test-004", currentPrice |-> Int2Num(950), yourMaxBid |-> Int2Num(1000),
     timeRemaining |-> Int2Num(45),
     bidHistory |-> <<[amount |-> Int2Num(900), bidder |-> "self"],
                      [amount |-> Int2Num(950), bidder |-> "opponent_1"]>>,
     estimatedValue |-> Int2Num(1200), competitorCount |-> Int2Num(2)]

\* the snapshot under evaluation is in the Terminal phase
Terminal ==
    /\ Le(TimeRatioNow, Int2Num(1))
    /\ ~SnipeActive(state, config)

\* min(maxBid, currentPrice x 1.1)
FinalBid == MathMin(config.maxBid, Mul(state.currentPrice, Dec(110)))

SnipingConfig == [TestConfig EXCEPT !.sniping = TRUE, !.snipeWindow = Int2Num(15)]

ScenarioC ==
    [auctionId |-> "test-005", currentPrice |-> Int2Num(900), yourMaxBid |-> Int2Num(1000),
     timeRemaining |-> Int2Num(12),
     bidHistory |-> <<[amount |-> Int2Num(850), bidder |-> "opponent_1"],
                      [amount |-> Int2Num(900), bidder |-> "opponent_2"]>>,
     estimatedValue |-> Int2Num(1200), competitorCount |-> Int2Num(2)]

\* C38: under the snipe override decideBid bids min(maxBid, estimatedValue)
\* with confidence 0.85 iff valueRatio < 1.0 and the operator does not lead;
\* in every other case it holds with confidence 0.95.  On Scenario C it bids
\* min(1000, 1200) = 1000.
C38_SnipePolicy ==
    /\ \A i \in DOMAIN returned :
          SnipeActive(state, config) =>
              LET d == returned[i]
              IN  /\ d.shouldBid <=> (Lt(ValueRatioNow, Int2Num(1)) /\ ~WeAreWinning(state))
                  /\ d.shouldBid =>
                        /\ d.amount = MathMin(config.maxBid, state.estimatedValue)
                        /\ d.confidence = Dec(85)
                  /\ ~d.shouldBid => d.confidence = Dec(95)
    /\ decideBid(ScenarioC, SnipingConfig).shouldBid
    /\ decideBid(ScenarioC, SnipingConfig).amount = Int2Num(1000)

\* decideBid has sniped with the estimated value, which is below maxBid
C38_Witness ==
    /\ Called
    /\ SnipeActive(state, config)
    /\ ~WeAreWinning(state)
    /\ Lt(state.estimatedValue, config.maxBid)
    /\ returned[1].shouldBid
    /\ returned[1].amount = state.estimatedValue
    /\ returned[1].confidence = Dec(85)

\* C39: the senteValue decideBid computes for a snapshot with
\* estimatedValue > 0 and competitorCount >= 0 lies in [0,1].
C39_SenteValueInUnitInterval ==
    (/\ Called
     /\ Gt(state.estimatedValue, Int2Num(0))
     /\ Ge(state.competitorCount, Int2Num(0)))
        => /\ Ge(calculateSenteValue(state), Int2Num(0))
           /\ Le(calculateSenteValue(state), Int2Num(1))

\* C40: the bidPressure decideBid computes for a snapshot with
\* timeRemaining >= 0 lies in [0,1], whatever the bids of its history.
C40_BidPressureInUnitInterval ==
    (Called /\ Ge(state.timeRemaining, Int2Num(0)))
        => /\ Ge(calculateBidPressure(state), Int2Num(0))
           /\ Le(calculateBidPressure(state), Int2Num(1))

====
